---- MODULE Spec2Model ----
(***************************************************************************)
(* paper_token_maker: Page.arrange / Page.render (page.py) and the border  *)
(* colour selection of Token (token.py).                                   *)
(*                                                                         *)
(* Lengths are integers: one unit is a quarter of 0.01 inch, so the size   *)
(* ordinal's bucket (0.01 inch) is HundredthInch units wide and two        *)
(* tokens of different height can share a bucket, as floats can.           *)
(***************************************************************************)
EXTENDS Integers, Sequences, FiniteSets, TLC

VARIABLES tokens, page, pc, order, run, arrangement, count, pi, qi, canvas

vars == <<tokens, page, pc, order, run, arrangement, count, pi, qi, canvas>>

----------------------------------------------------------------------------
(* Bounds of the model *)

MaxTokens == 2
MaxCopies == 2
MaxPagesCap == 2

(* 0.01 * inch, in model units *)
HundredthInch == 4

----------------------------------------------------------------------------
(* Python values for the colour configuration: an int or a sequence *)

PyInt(n) == [t |-> "int", n |-> n, items |-> <<>>]

PySeq(s) == [t |-> "seq", n |-> 0, items |-> s]

Colour(r, g, b) == PySeq(<<PyInt(r), PyInt(g), PyInt(b)>>)

White == Colour(255, 255, 255)
Black == Colour(0, 0, 0)
Red == Colour(255, 0, 0)
Green == Colour(0, 255, 0)
Blue == Colour(0, 0, 255)

----------------------------------------------------------------------------
(* Inputs *)

TokenKinds ==
  { [width |-> 2, height |-> 3, border_thickness |-> 0, bottom_margin |-> 0,
     border_colors |-> White],
    [width |-> 2, height |-> 2, border_thickness |-> 0, bottom_margin |-> 0,
     border_colors |-> PySeq(<<Red, Blue>>)],
    [width |-> 1, height |-> 1, border_thickness |-> 0, bottom_margin |-> 0,
     border_colors |-> PySeq(<<Red, Green, Blue>>)],
    [width |-> 4, height |-> 1, border_thickness |-> 0, bottom_margin |-> 0,
     border_colors |-> Black],
    [width |-> 2, height |-> 1, border_thickness |-> 1, bottom_margin |-> 1,
     border_colors |-> PySeq(<<Green>>)] }

TokenSet ==
  { [width |-> k.width, height |-> k.height,
     border_thickness |-> k.border_thickness, bottom_margin |-> k.bottom_margin,
     border_colors |-> k.border_colors, copies |-> c] :
    k \in TokenKinds, c \in 1..MaxCopies }

TokenLists == UNION { [1..n -> TokenSet] : n \in 0..MaxTokens }

PageWidths == {3, 6}
PageHeights == {8, 16}
PageMargins == {0, 1}

(* max_pages: <<>> is None, <<n>> is the integer n *)
MaxPagesSettings == {<<>>} \cup { <<n>> : n \in 1..MaxPagesCap }

PageSet ==
  [page_width : PageWidths, page_height : PageHeights,
   page_margin : PageMargins, max_pages : MaxPagesSettings]

----------------------------------------------------------------------------
(* token.py *)

image_width(token) == token.width + token.border_thickness * 2

image_height(token) ==
  token.height * 2 + token.border_thickness * 4 + token.bottom_margin * 2

(* Variant of border_color that clamps the index instead of cycling *)
border_color_unmod(border_colors, token_index) ==
  LET n == Len(border_colors.items)
      idx == IF token_index < n THEN token_index ELSE n - 1
      ok == /\ border_colors.t = "seq"
            /\ n > 0
            /\ border_colors.items[idx + 1].t = "seq"
      color == IF ok THEN border_colors.items[idx + 1] ELSE border_colors
  IN  IF color.t = "seq" /\ Len(color.items) >= 3
      THEN <<color.items[1], color.items[2], color.items[3]>>
      ELSE <<>>

(* Token._border_color: the try block indexes the configuration modulo its
   length and takes len() of the element; any exception falls back to the
   configuration itself.  <<>> stands for the exception of the final indexing. *)
border_color(border_colors, token_index) ==
  LET n == Len(border_colors.items)
      ok == /\ border_colors.t = "seq"
            /\ n > 0
            /\ border_colors.items[(token_index % n) + 1].t = "seq"
      color == IF ok THEN border_colors.items[(token_index % n) + 1]
               ELSE border_colors
  IN  IF color.t = "seq" /\ Len(color.items) >= 3
      THEN <<color.items[1], color.items[2], color.items[3]>>
      ELSE <<>>

----------------------------------------------------------------------------
(* page.py: geometry *)

renderable_width(p) == p.page_width - 2 * p.page_margin

renderable_height(p) == p.page_height - 2 * p.page_margin

(* Variant of right_margin that forgets the margin *)
right_margin_nomargin(p) == p.page_width

right_margin(p) == p.page_width - p.page_margin

bottom_margin(p) == p.page_height - p.page_margin

(* TRUE when validate_token returns, FALSE when it raises ValueError *)
validate_token(p, token) ==
  LET fits_horizontally == image_width(token) <= renderable_width(p)
      fits_vertically == image_height(token) <= renderable_height(p)
  IN  ~(~fits_horizontally \/ ~fits_vertically)

(* Variant of token_image_size_ordinal with the width bucket first *)
token_image_size_ordinal_swapped(token) ==
  <<image_width(token) \div HundredthInch, image_height(token) \div HundredthInch>>

token_image_size_ordinal(token) ==
  LET width == image_width(token) \div HundredthInch
      height == image_height(token) \div HundredthInch
  IN  <<height, width>>

----------------------------------------------------------------------------
(* page.py: arrange, grouping and iteration order *)

(* Python's order on tuples of two ints *)
TupleLess(a, b) == a[1] < b[1] \/ (a[1] = b[1] /\ a[2] < b[2])

(* token_groups[ordinal]: the indices of the tokens of that ordinal, in
   input order *)
token_group(toks, ordinal) ==
  SelectSeq([i \in 1..Len(toks) |-> i],
            LAMBDA i : token_image_size_ordinal(toks[i]) = ordinal)

RECURSIVE sorted(_)
sorted(keys) ==
  IF keys = {} THEN <<>>
  ELSE LET m == CHOOSE k \in keys : \A o \in keys : o = k \/ TupleLess(k, o)
       IN  <<m>> \o sorted(keys \ {m})

(* Variant of range that stops one copy short *)
range_short(toks, i) == [k \in 1..(toks[i].copies - 1) |-> i]

(* for _ in range(token.copies): one entry per iteration, naming the token *)
range(toks, i) == [k \in 1..toks[i].copies |-> i]

RECURSIVE GroupInstances(_, _)
GroupInstances(toks, group) ==
  IF group = <<>> THEN <<>>
  ELSE range(toks, Head(group)) \o GroupInstances(toks, Tail(group))

RECURSIVE KeysInstances(_, _)
KeysInstances(toks, keys) ==
  IF keys = <<>> THEN <<>>
  ELSE GroupInstances(toks, token_group(toks, Head(keys)))
       \o KeysInstances(toks, Tail(keys))

(* The token of each iteration of the three nested loops, in order *)
InstanceOrder(toks) ==
  KeysInstances(toks,
    sorted({ token_image_size_ordinal(toks[i]) : i \in 1..Len(toks) }))

----------------------------------------------------------------------------
(* page.py: arrange, the loop *)

Max(a, b) == IF a >= b THEN a ELSE b

ArrangeInit(p) ==
  [pos |-> 0, x |-> p.page_margin, y |-> p.page_margin, max_height_in_row |-> 0,
   token_placements |-> <<>>, page_token_placements |-> <<>>,
   status |-> "running", printed |-> FALSE]

(* Variants of CapReached: the limit ignored, the limit hit one page early *)
CapReached_never(p, pages) == FALSE

CapReached_early(p, pages) ==
  p.max_pages # <<>> /\ Len(pages) + 1 = p.max_pages[1]

(* len(page_token_placements) == self.max_pages *)
CapReached(p, pages) ==
  p.max_pages # <<>> /\ Len(pages) = p.max_pages[1]

(* Variant of RowHeight that keeps the last height instead of the largest *)
RowHeight_last(max_height, token) == image_height(token)

(* max(max_height_in_row, token.image_height) *)
RowHeight(max_height, token) == Max(max_height, image_height(token))

Place(st, x, y, placements, pages, max_height, ti, token) ==
  [st EXCEPT !.pos = st.pos + 1,
             !.x = x + image_width(token),
             !.y = y,
             !.max_height_in_row = RowHeight(max_height, token),
             !.token_placements =
                 Append(placements, [x |-> x, y |-> y, token |-> ti]),
             !.page_token_placements = pages]

(* One iteration of the innermost loop *)
ArrangeIter(p, toks, ord, st) ==
  LET ti == ord[st.pos + 1]
      token == toks[ti]
      wrap == st.x + image_width(token) > right_margin(p)
      y1 == IF wrap THEN st.y + st.max_height_in_row ELSE st.y
      x1 == IF wrap THEN p.page_margin ELSE st.x
      pages1 == Append(st.page_token_placements, st.token_placements)
  IN  IF ~validate_token(p, token)
      THEN [st EXCEPT !.status = "raised"]
      ELSE IF y1 + image_height(token) > bottom_margin(p)
      THEN IF CapReached(p, pages1)
           THEN [st EXCEPT !.x = x1, !.y = y1,
                           !.page_token_placements = pages1,
                           !.printed = TRUE, !.status = "returned"]
           ELSE Place(st, p.page_margin, p.page_margin, <<>>, pages1, 0,
                      ti, token)
      ELSE Place(st, x1, y1, st.token_placements, st.page_token_placements,
                 st.max_height_in_row, ti, token)

(* After the loops: the last page is appended when it is not empty *)
ArrangeFinish(st) ==
  [st EXCEPT !.page_token_placements =
                 IF Len(st.token_placements) > 0
                 THEN Append(st.page_token_placements, st.token_placements)
                 ELSE st.page_token_placements,
             !.status = "returned"]

RECURSIVE ArrangeLoop(_, _, _, _)
ArrangeLoop(p, toks, ord, st) ==
  IF st.status # "running" THEN st
  ELSE IF st.pos = Len(ord) THEN ArrangeFinish(st)
  ELSE ArrangeLoop(p, toks, ord, ArrangeIter(p, toks, ord, st))

(* Page.arrange as a function: the state the call ends in *)
arrange(p, toks) == ArrangeLoop(p, toks, InstanceOrder(toks), ArrangeInit(p))

----------------------------------------------------------------------------
(* page.py: render *)

Event(op, x, y, w, h, ti, index, border) ==
  [op |-> op, x |-> x, y |-> y, width |-> w, height |-> h, token |-> ti,
   token_index |-> index, border |-> border]

Init ==
  /\ tokens \in TokenLists
  /\ page \in PageSet
  /\ pc = "start"
  /\ order = <<>>
  /\ run = ArrangeInit(page)
  /\ arrangement = <<>>
  /\ count = 0
  /\ pi = 1
  /\ qi = 1
  /\ canvas = <<>>

(* arrange is entered: the tokens are grouped by ordinal and the cursor is
   set to the top-left corner *)
ArrangeStart ==
  /\ pc = "start"
  /\ pc' = "arrange"
  /\ order' = InstanceOrder(tokens)
  /\ run' = ArrangeInit(page)
  /\ UNCHANGED <<tokens, page, arrangement, count, pi, qi, canvas>>

(* One iteration of the innermost loop; it may raise, or return early at the
   page limit *)
ArrangeStep ==
  /\ pc = "arrange"
  /\ run.pos < Len(order)
  /\ run' = ArrangeIter(page, tokens, order, run)
  /\ pc' = CASE run'.status = "raised" -> "raised"
             [] run'.status = "returned" -> "returned"
             [] OTHER -> "arrange"
  /\ UNCHANGED <<tokens, page, order, arrangement, count, pi, qi, canvas>>

(* The loops are over: the last page is appended and the pages returned *)
ArrangeReturn ==
  /\ pc = "arrange"
  /\ run.pos = Len(order)
  /\ run' = ArrangeFinish(run)
  /\ pc' = "returned"
  /\ UNCHANGED <<tokens, page, order, arrangement, count, pi, qi, canvas>>

(* render receives the arrangement and starts counting *)
RenderArrangement ==
  /\ pc = "returned"
  /\ arrangement' = run.page_token_placements
  /\ count' = 0
  /\ pi' = 1
  /\ qi' = 1
  /\ pc' = "draw"
  /\ UNCHANGED <<tokens, page, order, run, canvas>>

(* token.to_image(token_index=count), c.drawImage(...), count += 1 *)
DrawImage ==
  /\ pc = "draw"
  /\ pi <= Len(arrangement)
  /\ qi <= Len(arrangement[pi])
  /\ LET e == arrangement[pi][qi]
         token == tokens[e.token]
     IN  canvas' = Append(canvas,
                     Event("drawImage", e.x, e.y, image_width(token),
                           image_height(token), e.token, count,
                           border_color(token.border_colors, count)))
  /\ count' = count + 1
  /\ qi' = qi + 1
  /\ UNCHANGED <<tokens, page, pc, order, run, arrangement, pi>>

(* Variant of ShowPage that moves to the next page without finalizing *)
ShowPage_skipped ==
  /\ pc = "draw"
  /\ pi <= Len(arrangement)
  /\ qi > Len(arrangement[pi])
  /\ pi' = pi + 1
  /\ qi' = 1
  /\ UNCHANGED <<tokens, page, pc, order, run, arrangement, count, canvas>>

(* c.showPage() after the placements of a page *)
ShowPage ==
  /\ pc = "draw"
  /\ pi <= Len(arrangement)
  /\ qi > Len(arrangement[pi])
  /\ canvas' = Append(canvas, Event("showPage", 0, 0, 0, 0, 0, 0, <<>>))
  /\ pi' = pi + 1
  /\ qi' = 1
  /\ UNCHANGED <<tokens, page, pc, order, run, arrangement, count>>

(* c.save() after the last page *)
Save ==
  /\ pc = "draw"
  /\ pi > Len(arrangement)
  /\ canvas' = Append(canvas, Event("save", 0, 0, 0, 0, 0, 0, <<>>))
  /\ pc' = "done"
  /\ UNCHANGED <<tokens, page, order, run, arrangement, count, pi, qi>>

(* A call of Page.arrange *)
ArrangeNext ==
  \/ ArrangeStart
  \/ ArrangeStep
  \/ ArrangeReturn

ArrangeSpec == Init /\ [][ArrangeNext]_vars

(* A call of Page.render, which calls arrange *)
Next ==
  \/ ArrangeStart
  \/ ArrangeStep
  \/ ArrangeReturn
  \/ RenderArrangement
  \/ DrawImage
  \/ ShowPage
  \/ Save

Spec == Init /\ [][Next]_vars

----------------------------------------------------------------------------
(* Vocabulary of the properties *)

Min(a, b) == IF a <= b THEN a ELSE b

(* Every token of the input passes validate_token *)
AllValid == \A i \in 1..Len(tokens) : validate_token(page, tokens[i])

SomeOversized == \E i \in 1..Len(tokens) : ~validate_token(page, tokens[i])

Capped == page.max_pages # <<>>

UncappedPage == [page EXCEPT !.max_pages = <<>>]

(* The pages of a loop state: the returned pages, or while the loop runs the
   completed pages followed by the page being filled *)
PagesOf(st) ==
  IF st.status = "returned" \/ st.token_placements = <<>>
  THEN st.page_token_placements
  ELSE Append(st.page_token_placements, st.token_placements)

Slots(pages) == { <<p, q>> : p \in 1..Len(pages), q \in 1..MaxTokens * MaxCopies }

Entries(pages) ==
  { s \in Slots(pages) : s[2] <= Len(pages[s[1]]) }

EntryW(e) == image_width(tokens[e.token])

EntryH(e) == image_height(tokens[e.token])

Overlap(a, b) ==
  /\ a.x < b.x + EntryW(b)
  /\ b.x < a.x + EntryW(a)
  /\ a.y < b.y + EntryH(b)
  /\ b.y < a.y + EntryH(a)

RECURSIVE Flatten(_)
Flatten(pages) ==
  IF pages = <<>> THEN <<>> ELSE Head(pages) \o Flatten(Tail(pages))

RECURSIVE SumCopies(_)
SumCopies(toks) ==
  IF toks = <<>> THEN 0 ELSE Head(toks).copies + SumCopies(Tail(toks))

----------------------------------------------------------------------------
(* C1: on every page, no two distinct placements overlap (their rectangles
   (x, y, image_width, image_height) have no common interior point), for
   every input whose tokens all pass validation, capped or not. *)
C1_NoOverlap ==
  AllValid =>
    LET pages == PagesOf(run)
    IN  \A p \in 1..Len(pages) :
          \A a, b \in 1..Len(pages[p]) :
            a # b => ~Overlap(pages[p][a], pages[p][b])

(* A finished page holding two rows, the first with two placements of
   different heights *)
C1_Witness ==
  /\ AllValid
  /\ run.status = "returned"
  /\ \E p \in 1..Len(run.page_token_placements) :
       \E a, b, c \in 1..Len(run.page_token_placements[p]) :
         LET pg == run.page_token_placements[p]
         IN  /\ a < b /\ b < c
             /\ pg[a].y = pg[b].y
             /\ EntryH(pg[a]) > EntryH(pg[b])
             /\ pg[c].y > pg[a].y

----------------------------------------------------------------------------
CountPlaced(pages, i) ==
  Cardinality({ s \in Entries(pages) : pages[s[1]][s[2]].token = i })

(* The result of arrange on the same tokens and geometry with max_pages = None *)
Uncapped == arrange(UncappedPage, tokens)

(* C2 (state part): with max_pages = None and only fitting tokens, arrange
   never raises, the loop never runs past the instance list, and the returned
   pages hold each token of the input exactly token.copies times, the sum of
   the copies in total, without a truncation report. *)
C2_Placed ==
  (~Capped /\ AllValid) =>
    /\ pc # "raised"
    /\ run.pos <= Len(order)
    /\ run.status = "returned" =>
         /\ \A i \in 1..Len(tokens) :
              CountPlaced(run.page_token_placements, i) = tokens[i].copies
         /\ Cardinality(Entries(run.page_token_placements)) = SumCopies(tokens)
         /\ ~run.printed

(* C2 (step part): under the same precondition every iteration of the loop
   consumes exactly one instance, so the loop ends after as many iterations
   as there are instances. *)
C2_Progress ==
  (~Capped /\ AllValid /\ pc = "arrange") =>
    \/ pc' = "arrange" /\ run'.pos = run.pos + 1
    \/ pc' = "returned" /\ run.pos = Len(order)

(* C2: with max_pages = None and every token fitting the renderable area,
   Page.arrange terminates and the returned pages contain each input token
   exactly token.copies times (none dropped, none duplicated). *)
C2_AllPlacedOnce == [](C2_Placed) /\ [][C2_Progress]_vars

(* An uncapped run that returned several pages for two tokens with copies *)
C2_Witness ==
  /\ ~Capped
  /\ AllValid
  /\ run.status = "returned"
  /\ Len(tokens) = 2
  /\ tokens[1].copies = 2
  /\ Len(run.page_token_placements) >= 2

----------------------------------------------------------------------------
(* C3: for any input list holding a token that does not fit the renderable
   area, arrange fails with the sizing error: it returns no pages and nothing
   is drawn or finalized, whatever the position of the token, the other
   tokens and max_pages. *)
C3_OversizedAlwaysRaises ==
  SomeOversized =>
    /\ run.status # "returned"
    /\ pc \notin {"returned", "draw", "done"}
    /\ canvas = <<>>

----------------------------------------------------------------------------
(* C4: with max_pages = N >= 1 and fitting tokens, arrange never raises; when
   the instances need more than N pages it returns exactly N pages and emits
   the truncation report; and the report is emitted only when at least one
   instance is left unplaced (never when N pages or fewer suffice). *)
C4_Truncation ==
  (Capped /\ AllValid) =>
    /\ pc # "raised"
    /\ ~run.printed \/ run.status = "returned"
    /\ run.status = "returned" =>
         LET N == page.max_pages[1]
             P == Len(Uncapped.page_token_placements)
         IN  /\ P > N => /\ Len(run.page_token_placements) = N
                         /\ run.printed
             /\ P <= N => ~run.printed
             /\ run.printed =>
                  Cardinality(Entries(run.page_token_placements))
                    < SumCopies(tokens)

(* A capped run truncated at two pages *)
C4_Witness ==
  /\ Capped
  /\ AllValid
  /\ run.status = "returned"
  /\ run.printed
  /\ page.max_pages = <<2>>
  /\ Len(Uncapped.page_token_placements) > 2

----------------------------------------------------------------------------
DrawEvents == SelectSeq(canvas, LAMBDA e : e.op = "drawImage")

(* A configuration that is a sequence of k >= 1 colours *)
IsColourSequence(bc) ==
  /\ bc.t = "seq"
  /\ Len(bc.items) >= 1
  /\ \A j \in 1..Len(bc.items) : bc.items[j].t = "seq"

(* A configuration that is one single colour *)
IsSingleColour(bc) ==
  /\ bc.t = "seq"
  /\ Len(bc.items) = 3
  /\ \A j \in 1..3 : bc.items[j].t = "int"

Components(colour) == <<colour.items[1], colour.items[2], colour.items[3]>>

(* C5: the composite drawn with token_index = i has border colour
   colours[i mod k] when the token is configured with k >= 1 colours, and the
   configured colour when it is configured with a single colour; render
   passes as token_index the number of composites drawn before, over all
   tokens and pages. *)
C5_BorderCycle ==
  LET draws == DrawEvents
  IN  \A j \in 1..Len(draws) :
        LET e == draws[j]
            bc == tokens[e.token].border_colors
        IN  /\ e.token_index = j - 1
            /\ IsColourSequence(bc) =>
                 e.border = Components(bc.items[((j - 1) % Len(bc.items)) + 1])
            /\ IsSingleColour(bc) => e.border = Components(bc)

(* A composite of a token with two colours drawn at index 2 (the cycle wrapped)
   and a composite of a single-colour token drawn at an index above 0 *)
C5_Witness ==
  /\ \E j \in 1..Len(DrawEvents) :
       /\ j - 1 >= 2
       /\ Len(tokens[DrawEvents[j].token].border_colors.items) = 2
       /\ DrawEvents[j].border # <<>>
  /\ \E j \in 1..Len(DrawEvents) :
       /\ j - 1 >= 1
       /\ IsSingleColour(tokens[DrawEvents[j].token].border_colors)

----------------------------------------------------------------------------
(* The largest image_height among the placements of page pg at height y *)
RowMax(pg, y) ==
  LET hs == { EntryH(pg[q]) : q \in { r \in 1..Len(pg) : pg[r].y = y } }
  IN  CHOOSE h \in hs : \A g \in hs : g <= h

(* C6: on every page each row after the first starts at the left margin, at
   the y of the previous row plus the largest image_height among the
   placements of that previous row only (the row-height accumulator starts
   again from 0 in every row). *)
C6_RowWrap ==
  AllValid =>
    LET pages == PagesOf(run)
    IN  \A p \in 1..Len(pages) :
          \A q \in 1..(Len(pages[p]) - 1) :
            pages[p][q + 1].y # pages[p][q].y =>
              /\ pages[p][q + 1].x = page.page_margin
              /\ pages[p][q + 1].y =
                   pages[p][q].y + RowMax(pages[p], pages[p][q].y)

----------------------------------------------------------------------------
HeightBucket(i) == image_height(tokens[i]) \div HundredthInch

WidthBucket(i) == image_width(tokens[i]) \div HundredthInch

(* C7: reading the pages in order and each page's placements in order, the
   size ordinals (height bucket, then width bucket) never decrease, tokens of
   equal ordinal come in input order, and the copies of one token are
   consecutive. *)
C7_TraversalOrder ==
  LET f == Flatten(PagesOf(run))
      t == [k \in 1..Len(f) |-> f[k].token]
      hb == [i \in 1..Len(tokens) |-> HeightBucket(i)]
      wb == [i \in 1..Len(tokens) |-> WidthBucket(i)]
  IN  \A a, b \in 1..Len(f) :
        a < b =>
          /\ \/ hb[t[a]] < hb[t[b]]
             \/ hb[t[a]] = hb[t[b]] /\ wb[t[a]] <= wb[t[b]]
          /\ (hb[t[a]] = hb[t[b]] /\ wb[t[a]] = wb[t[b]]) => t[a] <= t[b]
          /\ t[a] = t[b] => \A c \in a..b : t[c] = t[a]

(* A returned arrangement where the second input token is placed before the
   first: it is shorter but wider *)
C7_Witness ==
  /\ run.status = "returned"
  /\ Len(tokens) = 2
  /\ HeightBucket(2) < HeightBucket(1)
  /\ WidthBucket(2) > WidthBucket(1)
  /\ LET f == Flatten(run.page_token_placements)
     IN  /\ Len(f) >= 3
         /\ f[1].token = 2
         /\ f[Len(f)].token = 1

----------------------------------------------------------------------------
Blank(op, x, y, w, h) == Event(op, x, y, w, h, 0, 0, <<>>)

(* What reaches the canvas, without the token and its colour *)
Shape(e) == Blank(e.op, e.x, e.y, e.width, e.height)

PageDraws(pg) ==
  [q \in 1..Len(pg) |->
     Blank("drawImage", pg[q].x, pg[q].y, EntryW(pg[q]), EntryH(pg[q]))]

RECURSIVE PagesEvents(_)
PagesEvents(pages) ==
  IF pages = <<>> THEN <<>>
  ELSE PageDraws(Head(pages)) \o <<Blank("showPage", 0, 0, 0, 0)>>
       \o PagesEvents(Tail(pages))

(* The canvas events the arrangement calls for: per page its draws in
   placement order, then showPage; save at the very end *)
ExpectedEvents(pages) == PagesEvents(pages) \o <<Blank("save", 0, 0, 0, 0)>>

IsPrefix(s, t) ==
  Len(s) <= Len(t) /\ \A k \in 1..Len(s) : s[k] = t[k]

(* C8: nothing reaches the canvas before arrange has returned; then each
   page's placements are drawn in order (at their x, y, image_width,
   image_height), the page is finalized before the next page's first draw,
   there are as many showPage as pages and as many draws as placements, and
   save comes last. *)
C8_CanvasOrder ==
  /\ canvas # <<>> =>
       /\ run.status = "returned"
       /\ arrangement = run.page_token_placements
  /\ run.status = "returned" =>
       IsPrefix([k \in 1..Len(canvas) |-> Shape(canvas[k])],
                ExpectedEvents(run.page_token_placements))
  /\ pc = "done" =>
       Len(canvas) = Len(ExpectedEvents(run.page_token_placements))
  /\ pc = "raised" => canvas = <<>>

(* A saved document of two pages, the first holding two placements *)
C8_Witness ==
  /\ pc = "done"
  /\ Len(arrangement) = 2
  /\ Len(arrangement[1]) >= 2
  /\ canvas[Len(canvas)].op = "save"

----------------------------------------------------------------------------
(* C9: for inputs whose tokens all pass validation, every placement lies in
   the renderable area, every page starts at (page_margin, page_margin), and
   no page is empty. *)
C9_InsideRenderableArea ==
  AllValid =>
    LET pages == PagesOf(run)
    IN  \A p \in 1..Len(pages) :
          /\ Len(pages[p]) >= 1
          /\ pages[p][1].x = page.page_margin
          /\ pages[p][1].y = page.page_margin
          /\ \A q \in 1..Len(pages[p]) :
               LET e == pages[p][q]
               IN  /\ page.page_margin <= e.x
                   /\ e.x + EntryW(e) <= page.page_width - page.page_margin
                   /\ page.page_margin <= e.y
                   /\ e.y + EntryH(e) <= page.page_height - page.page_margin

(* Two pages returned on a page with a margin, the first page full to the
   right margin *)
C9_Witness ==
  /\ AllValid
  /\ run.status = "returned"
  /\ page.page_margin = 1
  /\ Len(run.page_token_placements) >= 2
  /\ \E q \in 1..Len(run.page_token_placements[1]) :
       LET e == run.page_token_placements[1][q]
       IN  e.x + EntryW(e) = page.page_width - page.page_margin

----------------------------------------------------------------------------
(* C10: with max_pages = N >= 1 and fitting tokens, the returned pages are
   exactly the first min(N, P) pages of the result of arrange on the same
   tokens and geometry with max_pages = None, P being the number of pages of
   that result. *)
C10_TruncationIsPrefix ==
  (Capped /\ AllValid /\ run.status = "returned") =>
    LET full == Uncapped.page_token_placements
        N == page.max_pages[1]
    IN  /\ Uncapped.status = "returned"
        /\ run.page_token_placements = SubSeq(full, 1, Min(N, Len(full)))

(* A capped run cut to one page where the uncapped result has three *)
C10_Witness ==
  /\ Capped
  /\ AllValid
  /\ run.status = "returned"
  /\ page.max_pages = <<1>>
  /\ Len(Uncapped.page_token_placements) >= 3
  /\ Len(run.page_token_placements) = 1

====
